---- MODULE Spec2Model ----
(***************************************************************************)
(* Model of the Game of Life engine in src/src/lib.rs: the Universe        *)
(* (width, height, cells) and its operations new, tick, set_cells,         *)
(* set_width, set_height, live_neighbor_count and render.                  *)
(*                                                                         *)
(* The cell buffer is a sequence; the source's 0-based index idx is the    *)
(* sequence position idx + 1.  An index past the end of the buffer is a    *)
(* Rust panic: the operation stops where it is and the Universe is not     *)
(* used again (panicked).  All numbers here stay far below 2^32, so the    *)
(* u32 arithmetic of the source never wraps inside the model's bounds.     *)
(***************************************************************************)
EXTENDS Integers, Sequences, FiniteSets, TLC

\* enum Cell { Dead = 0, Alive = 1 }
Dead == 0
Alive == 1
Cell == {Dead, Alive}

\* the characters of Display::fmt, as code points: U+25FB for a Dead cell,
\* U+25FC for an Alive one, and the line feed that ends a row
GlyphDead == 9723
GlyphAlive == 9724
Newline == 10

\* the size new() gives a Universe
DefaultWidth == 8
DefaultHeight == 8

\* Bounds of the model.
\* largest argument of set_width / set_height and largest row / column
\* handed to set_cells (one past the largest in-range value at MaxDim)
MaxDim == 2
\* number of operations called on a Universe made by new()
MaxOps == 3
\* largest width and height of the grids tick and live_neighbor_count are
\* run on with every content
MaxSide == 3
\* largest width and height of the grids the patterns are placed on
MaxPat == 6
\* number of ticks after a pattern is placed
MaxTicks == 2

VARIABLES
    width,      \* Universe.width
    height,     \* Universe.height
    cells,      \* Universe.cells
    panicked,   \* TRUE once an operation has panicked
    op,         \* history: the last operation called and its arguments
    pre,        \* history: width, height and cells before that operation
    ret,        \* the value the last operation returned (0 if none)
    nops        \* history: number of operations called so far

vars == <<width, height, cells, panicked, op, pre, ret, nops>>

----------------------------------------------------------------------------
\* Pure functions of the source.

AllDead(n) == [i \in 1..n |-> Dead]

\* get_index with row and column taken the wrong way round
get_indexColumnMajor(w, row, column) == column * w + row

\* fn get_index(&self, row, column) -> usize
get_index(w, row, column) == row * w + column

\* the arrays the two loops of live_neighbor_count run over
DeltaRows(h) == <<h - 1, 0, 1>>
DeltaCols(w) == <<w - 1, 0, 1>>

\* the index live_neighbor_count reads for the i-th delta_row, j-th delta_col
NeighborIdx(w, h, row, column, i, j) ==
    get_index(w, (row + DeltaRows(h)[i]) % h, (column + DeltaCols(w)[j]) % w)

\* the inner loop without its `continue`: the cell counts itself
SkippedNever(w, h, i, j) == FALSE

\* the `continue` of the inner loop
Skipped(w, h, i, j) == DeltaRows(h)[i] = 0 /\ DeltaCols(w)[j] = 0

\* live_neighbor_count indexes past the end of the buffer
LncPanics(w, h, c, row, column) ==
    \E i \in 1..3, j \in 1..3 :
        /\ ~Skipped(w, h, i, j)
        /\ NeighborIdx(w, h, row, column, i, j) >= Len(c)

\* fn live_neighbor_count(&self, row, column) -> u8
live_neighbor_count(w, h, c, row, column) ==
    LET term(i, j) == IF Skipped(w, h, i, j)
                      THEN 0
                      ELSE c[NeighborIdx(w, h, row, column, i, j) + 1]
    IN  term(1, 1) + term(1, 2) + term(1, 3)
      + term(2, 1) + term(2, 2) + term(2, 3)
      + term(3, 1) + term(3, 2) + term(3, 3)

\* the third pattern of the match with its guard moved up by one: `x > 4`
ArmMatchesOver4(k, cell, n) ==
    CASE k = 1 -> cell = Alive /\ n < 2
      [] k = 2 -> cell = Alive /\ (n = 2 \/ n = 3)
      [] k = 3 -> cell = Alive /\ n > 4
      [] k = 4 -> cell = Dead /\ n = 3

\* the pattern and guard of the k-th arm of the match of tick, k = 1..4
\* (rule 1 .. rule 4); the fifth arm `(otherwise, _)` matches everything
ArmMatches(k, cell, n) ==
    CASE k = 1 -> cell = Alive /\ n < 2
      [] k = 2 -> cell = Alive /\ (n = 2 \/ n = 3)
      [] k = 3 -> cell = Alive /\ n > 3
      [] k = 4 -> cell = Dead /\ n = 3

\* the value of the k-th arm
ArmValue(k) == <<Dead, Alive, Dead, Alive>>[k]

\* a match whose rule arms stand in the order `order`, followed by the arm
\* `(otherwise, _) => otherwise`: the first arm that matches gives the value
MatchInOrder(order, cell, n) ==
    LET hits == {p \in 1..Len(order) : ArmMatches(order[p], cell, n)}
    IN  IF hits = {}
        THEN cell
        ELSE ArmValue(order[CHOOSE p \in hits : \A q \in hits : p <= q])

\* the match of tick with its last arm giving Alive
NextCellDefaultAlive(cell, n) ==
    IF \E k \in 1..4 : ArmMatches(k, cell, n)
    THEN MatchInOrder(<<1, 2, 3, 4>>, cell, n)
    ELSE Alive

\* the match of tick: the arms in the order of the source
NextCell(cell, n) == MatchInOrder(<<1, 2, 3, 4>>, cell, n)

\* The two nested loops of tick are `for row in 0..self.width` and inside it
\* `for col in 0..self.height`; each iteration reads self.cells (c) and writes
\* next[get_index(row, col)].  The loops are given here by their effect.

\* some iteration indexes past the end of the buffer: tick panics before
\* `self.cells = next`, so the buffer stays as it was
TickPanics(w, h, c) ==
    \E row \in 0..(w - 1), col \in 0..(h - 1) :
        \/ get_index(w, row, col) >= Len(c)
        \/ LncPanics(w, h, c, row, col)

\* the rows whose iteration (row, idx - row * w) writes next[idx]
Writers(w, h, idx) == {row \in 0..(w - 1) : (idx - row * w) \in 0..(h - 1)}

\* next when the loops are done: an index no iteration writes keeps the value
\* of the clone, an index written more than once keeps the last write, which
\* is the one of the largest row (row is the outer loop)
TickCells(w, h, c) ==
    [i \in 1..Len(c) |->
        LET ws == Writers(w, h, i - 1)
        IN  IF ws = {}
            THEN c[i]
            ELSE LET row == CHOOSE r \in ws : \A q \in ws : q <= r
                     col == (i - 1) - row * w
                 IN  NextCell(c[i], live_neighbor_count(w, h, c, row, col))]

TickLoop(w, h, c) ==
    IF TickPanics(w, h, c)
    THEN [panic |-> TRUE, cells |-> c]
    ELSE [panic |-> FALSE, cells |-> TickCells(w, h, c)]

\* the loop of set_cells leaving after its first iteration
SetCellsLoopFirstOnly(w, c, L) ==
    IF L = <<>>
    THEN [panic |-> FALSE, cells |-> c]
    ELSE LET idx == L[1][1] * w + L[1][2]
         IN  IF idx >= Len(c)
             THEN [panic |-> TRUE, cells |-> c]
             ELSE [panic |-> FALSE, cells |-> [c EXCEPT ![idx + 1] = Alive]]

\* the loop of set_cells flipping each addressed cell instead of setting it
RECURSIVE SetCellsLoopFlip(_, _, _)
SetCellsLoopFlip(w, c, L) ==
    IF L = <<>>
    THEN [panic |-> FALSE, cells |-> c]
    ELSE LET idx == L[1][1] * w + L[1][2]
         IN  IF idx >= Len(c)
             THEN [panic |-> TRUE, cells |-> c]
             ELSE SetCellsLoopFlip(w, [c EXCEPT ![idx + 1] = Alive - c[idx + 1]], Tail(L))

\* The loop of set_cells over the coordinate list L.
RECURSIVE SetCellsLoop(_, _, _)
SetCellsLoop(w, c, L) ==
    IF L = <<>>
    THEN [panic |-> FALSE, cells |-> c]
    ELSE LET idx == get_index(w, L[1][1], L[1][2])
         IN  IF idx >= Len(c)
             THEN [panic |-> TRUE, cells |-> c]
             ELSE SetCellsLoop(w, [c EXCEPT ![idx + 1] = Alive], Tail(L))

\* the two glyphs of Display::fmt taken the wrong way round
SymbolSwapped(cell) == IF cell = Dead THEN GlyphAlive ELSE GlyphDead

\* the glyph Display::fmt writes for a cell
Symbol(cell) == IF cell = Dead THEN GlyphDead ELSE GlyphAlive

\* impl fmt::Display for Universe: the text written for a buffer c cut into
\* chunks(w), w >= 1.  There are q chunks, all of w cells but possibly the
\* last; each is written as its glyphs and a line feed, so position p of the
\* text falls in line (p - 1) \div (w + 1).
fmt(w, h, c) ==
    LET n == Len(c)
        q == (n + w - 1) \div w
    IN  [p \in 1..(n + q) |->
            LET line == (p - 1) \div (w + 1)
                off == (p - 1) % (w + 1)
            IN  IF p = n + q \/ off = w
                THEN Newline
                ELSE Symbol(c[line * w + off + 1])]

----------------------------------------------------------------------------
\* Inputs.

Dims == 0..MaxDim
Coords == (0..MaxDim) \X (0..MaxDim)
\* coordinate lists of at most one pair
OneLists == {<<>>} \cup {<<a>> : a \in Coords}
\* coordinate lists of up to two pairs
CoordLists == {<<>>} \cup {<<a>> : a \in Coords} \cup {<<a, b>> : a \in Coords, b \in Coords}

\* Some of the grids the random seeding of new() can produce, as the sets of
\* their Alive indices: none, all, the two patterns new() names, a stripe.
SeedAlive ==
    { {}, 0..(DefaultWidth * DefaultHeight - 1),
      {1, 4, DefaultWidth, 2 * DefaultWidth, 2 * DefaultWidth + 4, DefaultWidth * 3,
       DefaultWidth * 3 + 1, DefaultWidth * 3 + 2, DefaultWidth * 3 + 3},
      {DefaultWidth * 7 + DefaultWidth \div 2 - 1, DefaultWidth * 7 + DefaultWidth \div 2,
       DefaultWidth * 7 + DefaultWidth \div 2 + 1},
      {i \in 0..(DefaultWidth * DefaultHeight - 1) : i % 3 = 0} }

Snapshot == [width |-> width, height |-> height, cells |-> cells]
OpRec(name, k, list, row, column) ==
    [name |-> name, k |-> k, list |-> list, row |-> row, column |-> column]

----------------------------------------------------------------------------
\* Operations.

\* pub fn new() -> Universe
New ==
    /\ width = DefaultWidth
    /\ height = DefaultHeight
    /\ \E S \in SeedAlive :
           cells = [i \in 1..(DefaultWidth * DefaultHeight) |->
                        IF (i - 1) \in S THEN Alive ELSE Dead]
    /\ panicked = FALSE
    /\ op = OpRec("new", 0, <<>>, 0, 0)
    /\ pre = Snapshot
    /\ ret = 0
    /\ nops = 0

\* pub fn tick(&mut self)
Tick ==
    /\ ~panicked
    /\ LET r == TickLoop(width, height, cells)
       IN  /\ cells' = r.cells
           /\ panicked' = r.panic
    /\ UNCHANGED <<width, height>>
    /\ op' = OpRec("tick", 0, <<>>, 0, 0)
    /\ pre' = Snapshot
    /\ ret' = 0
    /\ nops' = nops + 1

\* pub fn set_cells(&mut self, cells: &[(u32, u32)])
SetCells(L) ==
    /\ ~panicked
    /\ LET r == SetCellsLoop(width, cells, L)
       IN  /\ cells' = r.cells
           /\ panicked' = r.panic
    /\ UNCHANGED <<width, height>>
    /\ op' = OpRec("set_cells", 0, L, 0, 0)
    /\ pre' = Snapshot
    /\ ret' = 0
    /\ nops' = nops + 1

\* set_width that sets the width and leaves the buffer as it is
SetWidthKeepsBuffer(k) ==
    /\ ~panicked
    /\ width' = k
    /\ UNCHANGED <<cells, height, panicked>>
    /\ op' = OpRec("set_width", k, <<>>, 0, 0)
    /\ pre' = Snapshot
    /\ ret' = 0
    /\ nops' = nops + 1

\* set_width that returns early when the width does not change
SetWidthSkipsSame(k) ==
    /\ ~panicked
    /\ width' = k
    /\ cells' = IF k = width THEN cells ELSE AllDead(k * height)
    /\ UNCHANGED <<height, panicked>>
    /\ op' = OpRec("set_width", k, <<>>, 0, 0)
    /\ pre' = Snapshot
    /\ ret' = 0
    /\ nops' = nops + 1

\* pub fn set_width(&mut self, width: u32)
SetWidth(k) ==
    /\ ~panicked
    /\ width' = k
    /\ cells' = AllDead(k * height)
    /\ UNCHANGED <<height, panicked>>
    /\ op' = OpRec("set_width", k, <<>>, 0, 0)
    /\ pre' = Snapshot
    /\ ret' = 0
    /\ nops' = nops + 1

\* pub fn set_height(&mut self, height: u32)
SetHeight(k) ==
    /\ ~panicked
    /\ height' = k
    /\ cells' = AllDead(width * k)
    /\ UNCHANGED <<width, panicked>>
    /\ op' = OpRec("set_height", k, <<>>, 0, 0)
    /\ pre' = Snapshot
    /\ ret' = 0
    /\ nops' = nops + 1

----------------------------------------------------------------------------
\* fn live_neighbor_count(&self, row, column) -> u8, called on its own with
\* an in-range cell
LiveNeighborCount(row, column) ==
    /\ ~panicked
    /\ row < height
    /\ column < width
    /\ IF LncPanics(width, height, cells, row, column)
       THEN panicked' = TRUE /\ ret' = 0
       ELSE panicked' = FALSE
            /\ ret' = live_neighbor_count(width, height, cells, row, column)
    /\ UNCHANGED <<width, height, cells>>
    /\ op' = OpRec("live_neighbor_count", 0, <<>>, row, column)
    /\ pre' = Snapshot
    /\ nops' = nops + 1

\* one iteration of the two loops of tick, for the loop variables row and
\* col: it reads the cell at get_index(row, col), counts its neighbours and
\* evaluates the match; ret is next_cell
TickIteration(row, col) ==
    /\ ~panicked
    /\ row < width
    /\ col < height
    /\ IF \/ get_index(width, row, col) >= Len(cells)
          \/ LncPanics(width, height, cells, row, col)
       THEN panicked' = TRUE /\ ret' = 0
       ELSE panicked' = FALSE
            /\ ret' = NextCell(cells[get_index(width, row, col) + 1],
                               live_neighbor_count(width, height, cells, row, col))
    /\ UNCHANGED <<width, height, cells>>
    /\ op' = OpRec("tick_iteration", 0, <<>>, row, col)
    /\ pre' = Snapshot
    /\ nops' = nops + 1

\* pub fn render(&self) -> String: self.to_string().  chunks(0) panics.
Render ==
    /\ ~panicked
    /\ IF width = 0
       THEN panicked' = TRUE /\ ret' = 0
       ELSE panicked' = FALSE /\ ret' = fmt(width, height, cells)
    /\ UNCHANGED <<width, height, cells>>
    /\ op' = OpRec("render", 0, <<>>, 0, 0)
    /\ pre' = Snapshot
    /\ nops' = nops + 1

----------------------------------------------------------------------------
\* The Universe made by new(), then up to MaxOps operations on it, set_cells
\* with one coordinate at a time.

Init == New

Next ==
    \/ nops < MaxOps /\ Tick
    \/ nops < MaxOps /\ \E L \in OneLists : SetCells(L)
    \/ nops < MaxOps /\ \E k \in Dims : SetWidth(k)
    \/ nops < MaxOps /\ \E k \in Dims : SetHeight(k)
    \/ nops < MaxOps /\ Render

Spec == Init /\ [][Next]_vars

----------------------------------------------------------------------------
\* Any Universe of up to MaxDim x MaxDim cells (each is reached from new() by
\* set_width, set_height and one set_cells) and any one operation on it; a
\* set_cells may then be called once more with the same list.  Every Universe
\* an operation leaves is again one of the initial ones, so these are all the
\* steps of any run over such Universes.

InitGrid ==
    /\ width \in Dims
    /\ height \in Dims
    /\ cells \in [1..(width * height) -> Cell]
    /\ panicked = FALSE
    /\ op = OpRec("new", 0, <<>>, 0, 0)
    /\ pre = Snapshot
    /\ ret = 0
    /\ nops = 0

NextGrid ==
    \/ nops = 0 /\ Tick
    \/ nops = 0 /\ \E L \in CoordLists : SetCells(L)
    \/ nops = 0 /\ \E k \in Dims : SetWidth(k)
    \/ nops = 0 /\ \E k \in Dims : SetHeight(k)
    \/ nops = 0 /\ \E row \in Dims, column \in Dims : LiveNeighborCount(row, column)
    \/ nops = 0 /\ Render
    \/ nops = 1 /\ op.name = "set_cells" /\ SetCells(op.list)

SpecGrid == InitGrid /\ [][NextGrid]_vars

----------------------------------------------------------------------------
\* One call of tick or of live_neighbor_count, or one iteration of the loops
\* of tick, on any Universe of 2..MaxSide
\* columns and rows, with every content (a dimension of 2 is the smallest for
\* which the three deltas of live_neighbor_count hold no second 0).

InitTick ==
    /\ width \in 2..MaxSide
    /\ height \in 2..MaxSide
    /\ cells \in [1..(width * height) -> Cell]
    /\ panicked = FALSE
    /\ op = OpRec("new", 0, <<>>, 0, 0)
    /\ pre = Snapshot
    /\ ret = 0
    /\ nops = 0

NextTick ==
    \/ nops = 0 /\ Tick
    \/ nops = 0 /\ \E row \in 0..(MaxSide - 1), column \in 0..(MaxSide - 1) :
                       LiveNeighborCount(row, column)
    \/ nops = 0 /\ \E row \in 0..(MaxSide - 1), col \in 0..(MaxSide - 1) :
                       TickIteration(row, col)

SpecTick == InitTick /\ [][NextTick]_vars

----------------------------------------------------------------------------
\* A blinker or a block placed by one set_cells on an all-Dead grid (as
\* set_width and set_height leave it), then MaxTicks calls of tick.

\* the row of three cells centred on (r, k), wrapping at the edges
HBlinker(w, h, r, k) == <<<<r, (k + w - 1) % w>>, <<r, k>>, <<r, (k + 1) % w>>>>
\* the column of three cells centred on (r, k)
VBlinker(w, h, r, k) == <<<<(r + h - 1) % h, k>>, <<r, k>>, <<(r + 1) % h, k>>>>
\* the 2x2 block whose top left cell is (r, k)
Block(w, h, r, k) ==
    <<<<r, k>>, <<r, (k + 1) % w>>, <<(r + 1) % h, k>>, <<(r + 1) % h, (k + 1) % w>>>>

\* the w x h grid whose Alive cells are those of the coordinate list L
GridOf(w, h, L) ==
    [i \in 1..(w * h) |->
        IF \E n \in 1..Len(L) : L[n][1] * w + L[n][2] = i - 1 THEN Alive ELSE Dead]

InitPattern ==
    /\ width \in 4..MaxPat
    /\ height \in 4..MaxPat
    /\ cells = AllDead(width * height)
    /\ panicked = FALSE
    /\ op = OpRec("new", 0, <<>>, 0, 0)
    /\ pre = Snapshot
    /\ ret = 0
    /\ nops = 0

NextPattern ==
    \/ nops = 0 /\ \E r \in 0..(height - 1), k \in 0..(width - 1) :
                       SetCells(HBlinker(width, height, r, k))
    \/ nops = 0 /\ \E r \in 0..(height - 1), k \in 0..(width - 1) :
                       SetCells(Block(width, height, r, k))
    \/ nops >= 1 /\ nops <= MaxTicks /\ Tick

SpecPattern == InitPattern /\ [][NextPattern]_vars

----------------------------------------------------------------------------
\* What the properties below are stated with.  None of it is taken from the
\* code: rows and columns are wrapped with the offsets -1, 0, 1.

\* the cell of row `row`, column `column` in a buffer of width w
At(w, c, row, column) == c[row * w + column + 1]

\* the positions around (row, column) on the torus, as a set
Neighbors8(w, h, row, column) ==
    {<<(row + d[1] + h) % h, (column + d[2] + w) % w>> :
        d \in ((-1..1) \X (-1..1)) \ {<<0, 0>>}}

\* the number of Alive cells over the eight offsets around (row, column)
ToroidalCount(w, h, c, row, column) ==
    LET n(dr, dc) == At(w, c, (row + dr + h) % h, (column + dc + w) % w)
    IN  n(-1, -1) + n(-1, 0) + n(-1, 1) + n(0, -1) + n(0, 1)
      + n(1, -1) + n(1, 0) + n(1, 1)

\* Conway's rule
LifeRule(cell, n) ==
    IF (cell = Alive /\ n \in {2, 3}) \/ (cell = Dead /\ n = 3) THEN Alive ELSE Dead

\* every pair of the list L is a cell of the Universe u
InBounds(L, u) == \A n \in 1..Len(L) : L[n][1] < u.height /\ L[n][2] < u.width

Listed(L, row, column) == \E n \in 1..Len(L) : L[n] = <<row, column>>

HasAlive(c) == \E i \in 1..Len(c) : c[i] = Alive

----------------------------------------------------------------------------
\* C1: one tick of a Universe of width >= 1 and height >= 1 (square or not)
\* ends normally and leaves each cell (r, k) Alive iff it was Alive with 2 or
\* 3 live toroidal neighbours or Dead with exactly 3, all counted on the grid
\* before the tick.
C1_TickIsNextGeneration ==
    (op.name = "tick" /\ pre.width >= 1 /\ pre.height >= 1) =>
        /\ ~panicked
        /\ Len(cells) = pre.width * pre.height
        /\ \A r \in 0..(pre.height - 1), k \in 0..(pre.width - 1) :
               At(pre.width, cells, r, k) =
                   LifeRule(At(pre.width, pre.cells, r, k),
                            ToroidalCount(pre.width, pre.height, pre.cells, r, k))

\* C2: in every state reached from new() the buffer holds width * height cells.
C2_DimensionInvariant == Len(cells) = width * height

C2_Witness ==
    /\ op.name = "set_height"
    /\ width # DefaultWidth
    /\ height # pre.height
    /\ width # height
    /\ width * height > 0
    /\ Len(cells) = width * height

\* C3: on a grid of at least 3 x 3, live_neighbor_count(row, column) is the
\* number of Alive cells among the eight distinct wrapped positions around
\* (row, column), the cell itself not among them; for (0, 0) these are the
\* eight positions listed.
C3_ToroidalNeighbors ==
    (op.name = "live_neighbor_count" /\ width >= 3 /\ height >= 3) =>
        LET N == Neighbors8(width, height, op.row, op.column)
        IN  /\ ~panicked
            /\ Cardinality(N) = 8
            /\ <<op.row, op.column>> \notin N
            /\ ret = Cardinality({p \in N : At(width, cells, p[1], p[2]) = Alive})
            /\ (op.row = 0 /\ op.column = 0) =>
                   N = { <<height - 1, width - 1>>, <<height - 1, 0>>, <<height - 1, 1>>,
                         <<0, width - 1>>, <<0, 1>>,
                         <<1, width - 1>>, <<1, 0>>, <<1, 1>> }

C3_Witness ==
    /\ op.name = "live_neighbor_count"
    /\ width >= 3 /\ height >= 3
    /\ op.row = 0 /\ op.column = 0
    /\ At(width, cells, 0, 0) = Alive
    /\ At(width, cells, height - 1, width - 1) = Alive
    /\ At(width, cells, 0, width - 1) = Alive
    /\ At(width, cells, height - 1, 1) = Alive
    /\ ret = 3

\* C4: on a grid of width >= 5 and height >= 5 (square or not) holding only a
\* horizontal blinker, one tick leaves exactly the vertical blinker through
\* the same centre, and the next tick the horizontal one again.
C4_BlinkerOscillates ==
    (op.name = "tick" /\ width >= 5 /\ height >= 5) =>
        \A r \in 0..(height - 1), k \in 0..(width - 1) :
            /\ pre.cells = GridOf(width, height, HBlinker(width, height, r, k)) =>
                   /\ ~panicked
                   /\ cells = GridOf(width, height, VBlinker(width, height, r, k))
            /\ pre.cells = GridOf(width, height, VBlinker(width, height, r, k)) =>
                   /\ ~panicked
                   /\ cells = GridOf(width, height, HBlinker(width, height, r, k))

\* C5: on a grid of width >= 4 and height >= 4 (square or not) holding only a
\* 2x2 block, tick leaves the grid as it was.
C5_BlockIsStill ==
    (op.name = "tick" /\ width >= 4 /\ height >= 4) =>
        \A r \in 0..(height - 1), k \in 0..(width - 1) :
            pre.cells = GridOf(width, height, Block(width, height, r, k)) =>
                /\ ~panicked
                /\ cells = pre.cells

\* C6: set_width(k) and set_height(k) with k >= 1, called on a Universe with
\* an Alive cell, leave a buffer of k * height (width * k) cells, all Dead,
\* also when k is the dimension the Universe already had.
C6_ResizeResets ==
    /\ (op.name = "set_width" /\ op.k >= 1 /\ HasAlive(pre.cells)) =>
           /\ width = op.k
           /\ height = pre.height
           /\ Len(cells) = op.k * pre.height
           /\ ~HasAlive(cells)
    /\ (op.name = "set_height" /\ op.k >= 1 /\ HasAlive(pre.cells)) =>
           /\ height = op.k
           /\ width = pre.width
           /\ Len(cells) = pre.width * op.k
           /\ ~HasAlive(cells)

C6_Witness ==
    /\ op.name = "set_width"
    /\ op.k = pre.width
    /\ op.k >= 1
    /\ HasAlive(pre.cells)
    /\ Len(cells) > 0
    /\ ~HasAlive(cells)

\* C7: set_cells with a list of in-bounds pairs leaves every listed cell
\* Alive and every other cell, the width and the height as they were; no
\* Alive cell becomes Dead.
C7_SetCellsFrame ==
    (op.name = "set_cells" /\ InBounds(op.list, pre)) =>
        /\ ~panicked
        /\ width = pre.width
        /\ height = pre.height
        /\ Len(cells) = Len(pre.cells)
        /\ \A r \in 0..(height - 1), k \in 0..(width - 1) :
               /\ Listed(op.list, r, k) => At(width, cells, r, k) = Alive
               /\ ~Listed(op.list, r, k) =>
                      At(width, cells, r, k) = At(width, pre.cells, r, k)
               /\ At(width, pre.cells, r, k) = Alive => At(width, cells, r, k) = Alive

C7_Witness ==
    /\ op.name = "set_cells"
    /\ Len(op.list) = 2
    /\ op.list[1] # op.list[2]
    /\ InBounds(op.list, pre)
    /\ \E i \in 1..Len(cells) : pre.cells[i] = Dead /\ cells[i] = Alive
    /\ \E i \in 1..Len(cells) : pre.cells[i] = Dead /\ cells[i] = Dead
    /\ \E i \in 1..Len(cells) : pre.cells[i] = Alive /\ cells[i] = Alive

\* C8: a second set_cells with the same list of in-bounds pairs changes
\* nothing: the grid after both calls is the grid after the first.
C8_SetCellsIdempotent ==
    [][(/\ op.name = "set_cells"
        /\ InBounds(op.list, pre)
        /\ op'.name = "set_cells"
        /\ op'.list = op.list)
       => (/\ ~panicked'
           /\ cells' = cells
           /\ width' = width
           /\ height' = height)]_vars

\* the state after the second of two equal calls that set two cells
C8_Witness ==
    /\ nops = 2
    /\ op.name = "set_cells"
    /\ Len(op.list) = 2
    /\ op.list[1] # op.list[2]
    /\ InBounds(op.list, pre)
    /\ ~panicked
    /\ pre.cells = cells
    /\ \A n \in 1..Len(op.list) : At(width, cells, op.list[n][1], op.list[n][2]) = Alive
    /\ \E i \in 1..Len(cells) : cells[i] = Dead

\* C9: set_cells with a list holding a pair with row >= height or
\* column >= width fails and leaves every cell as it was.
C9_OutOfBoundsRejected ==
    (op.name = "set_cells" /\ ~InBounds(op.list, pre)) =>
        /\ panicked
        /\ cells = pre.cells
        /\ width = pre.width
        /\ height = pre.height

\* C10: set_width(0) and set_height(0) leave width, height and the cells as
\* they were, and no state has width = 0 or height = 0.
C10_ZeroDimensionRejected ==
    /\ width >= 1
    /\ height >= 1
    /\ (op.name \in {"set_width", "set_height"} /\ op.k = 0) =>
           /\ width = pre.width
           /\ height = pre.height
           /\ cells = pre.cells

\* C11: with width >= 1 and height >= 1, render() is height lines of width
\* glyphs and a line feed each, and the glyph of line r, position k is the
\* Alive glyph iff cell (r, k) is Alive, the Dead glyph otherwise.
C11_RenderAgrees ==
    (op.name = "render" /\ width >= 1 /\ height >= 1) =>
        /\ ~panicked
        /\ GlyphAlive # GlyphDead
        /\ Len(ret) = height * (width + 1)
        /\ \A r \in 0..(height - 1) :
               /\ ret[r * (width + 1) + width + 1] = Newline
               /\ \A k \in 0..(width - 1) :
                      ret[r * (width + 1) + k + 1] =
                          IF At(width, cells, r, k) = Alive THEN GlyphAlive ELSE GlyphDead

C11_Witness ==
    /\ op.name = "render"
    /\ ~panicked
    /\ width >= 1 /\ height >= 2
    /\ width # height
    /\ HasAlive(cells)
    /\ \E i \in 1..Len(cells) : cells[i] = Dead
    /\ Len(ret) = Len(cells) + height

\* C12: a tick of a Universe with width >= 1 and height >= 1 (square or not)
\* runs to its end: every index it computes, for the cell it updates and for
\* each neighbour it looks up, is below the length of the buffer.
C12_TickNeverFaults ==
    (op.name = "tick" /\ pre.width >= 1 /\ pre.height >= 1) =>
        /\ ~panicked
        /\ ~TickPanics(pre.width, pre.height, pre.cells)

\* C13: for width >= 1 and height >= 1, dimensions 1 and 2 included,
\* live_neighbor_count(row, column) is the sum over the 8 offsets other than
\* (0, 0) of the aliveness of the wrapped cell, a number in 0..8 (8 for the
\* Alive cell of a 1x1 grid).
C13_CountOverEightOffsets ==
    (op.name = "live_neighbor_count" /\ width >= 1 /\ height >= 1) =>
        /\ ~panicked
        /\ ret \in 0..8
        /\ ret = ToroidalCount(width, height, cells, op.row, op.column)

\* the orders the four rule arms of the match can stand in
ArmOrders ==
    {o \in [1..4 -> 1..4] : \A a, b \in 1..4 : a # b => o[a] # o[b]}

\* C14: the match of tick gives, for a cell and its count of live neighbours
\* (a number in 0..8), the value of the rule table: Alive with 2 or 3 and Dead
\* with 3 give Alive, every other pair gives Dead.  At most one rule arm
\* matches a pair, an Alive cell always matches one of them (it never reaches
\* the last arm), and the value is the same in every order of the rule arms.
C14_RuleTable ==
    (op.name = "tick_iteration" /\ ~panicked) =>
        LET cell == cells[get_index(width, op.row, op.column) + 1]
            n == live_neighbor_count(width, height, cells, op.row, op.column)
        IN  /\ n \in 0..8
            /\ ret \in Cell
            /\ ret = LifeRule(cell, n)
            /\ \A a, b \in 1..4 :
                   ArmMatches(a, cell, n) /\ ArmMatches(b, cell, n) => a = b
            /\ cell = Alive => \E k \in 1..3 : ArmMatches(k, cell, n)
            /\ \A o \in ArmOrders : MatchInOrder(o, cell, n) = ret

\* an Alive cell with four live neighbours, found Dead by the match
C14_Witness ==
    /\ op.name = "tick_iteration"
    /\ ~panicked
    /\ cells[get_index(width, op.row, op.column) + 1] = Alive
    /\ live_neighbor_count(width, height, cells, op.row, op.column) = 4
    /\ ret = Dead

\* the generation after c on the w x h torus, cell by cell by Conway's rule
NextGeneration(w, h, c) ==
    [i \in 1..Len(c) |->
        LifeRule(c[i], ToroidalCount(w, h, c, (i - 1) \div w, (i - 1) % w))]

\* C15: a tick leaves width, height and the length of the buffer as they were,
\* and the buffer seen after it is either the whole previous generation or
\* the whole next generation, never a mixture of the two.
C15_TickFrameAndAtomic ==
    (op.name = "tick" /\ pre.width >= 1 /\ pre.height >= 1) =>
        /\ width = pre.width
        /\ height = pre.height
        /\ Len(cells) = Len(pre.cells)
        /\ \/ cells = pre.cells
           \/ cells = NextGeneration(pre.width, pre.height, pre.cells)

\* C16: set_width(k) and set_height(k) with k >= 1 leave no Alive cell, and a
\* tick of a grid with no Alive cell leaves no Alive cell, whatever the width
\* and the height; so the grid stays all Dead over any run of ticks that
\* follows a resize.
C16_DeadStaysDead ==
    /\ (op.name \in {"set_width", "set_height"} /\ op.k >= 1) => ~HasAlive(cells)
    /\ (op.name = "tick" /\ ~HasAlive(pre.cells)) => ~HasAlive(cells)

\* a resized, non-empty grid after a tick that ran to its end, all Dead
C16_Witness ==
    /\ nops = MaxOps
    /\ op.name = "tick"
    /\ ~panicked
    /\ width # DefaultWidth
    /\ width * height >= 2
    /\ Len(cells) = width * height
    /\ ~HasAlive(pre.cells)
    /\ ~HasAlive(cells)

\* the lists with the elements of the list S in every order
Reorderings(S) ==
    {[i \in 1..Len(S) |-> S[f[i]]] :
        f \in {g \in [1..Len(S) -> 1..Len(S)] :
                  \A a, b \in 1..Len(S) : a # b => g[a] # g[b]}}

\* C17: after set_cells(L1) with L1 in bounds, for every list L2 in bounds,
\* set_cells(L2) gives the grid that set_cells(L2) followed by set_cells(L1)
\* gives from the grid before, and that one set_cells call gives from it on
\* the concatenation of L1 and L2 in any order of its pairs; none panics.
C17_SetCellsOrderFree ==
    (op.name = "set_cells" /\ InBounds(op.list, pre)) =>
        \A L2 \in OneLists :
            InBounds(L2, pre) =>
                LET L1 == op.list
                    then12 == SetCellsLoop(width, cells, L2)
                    then21 == SetCellsLoop(width,
                                  SetCellsLoop(width, pre.cells, L2).cells, L1)
                IN  /\ ~panicked
                    /\ ~then12.panic
                    /\ then21 = then12
                    /\ \A P \in Reorderings(L1 \o L2) :
                           SetCellsLoop(width, pre.cells, P) = then12

\* set_cells has set two different cells of a grid, one of them Dead before
C17_Witness ==
    /\ op.name = "set_cells"
    /\ nops = 1
    /\ ~panicked
    /\ InBounds(op.list, pre)
    /\ Len(op.list) = 2
    /\ op.list[1] # op.list[2]
    /\ cells # pre.cells
    /\ \E L2 \in OneLists :
           /\ Len(L2) = 1
           /\ InBounds(L2, pre)
           /\ ~Listed(op.list, L2[1][1], L2[1][2])
           /\ SetCellsLoop(width, cells, L2).cells # cells

====
